---- MODULE Spec2Model ----
(***************************************************************************)
(* Model of GWForge/population/mass.py: the Mass sampler.                  *)
(*                                                                         *)
(* A Mass object is built from a model name, a sample count and a          *)
(* parameter mapping.  sample() first tries the grid models of             *)
(* gwpopulation (tier 1, the try block), and on any exception falls        *)
(* through to the closed-form models (tier 2, the except block), which     *)
(* are selected by substring tests on the normalised name.                 *)
(*                                                                         *)
(* Strings are TLA+ strings (sequences of characters); numbers are exact   *)
(* rationals <<numerator, denominator>>.  Two calls of sample() on the     *)
(* same configuration, each starting from the same state of the random     *)
(* source, run side by side (Runs).                                        *)
(***************************************************************************)
EXTENDS Integers, Sequences, FiniteSets, TLC

(***************************************************************************)
(* Bounds of the model.                                                    *)
(***************************************************************************)
\* largest number_of_samples tried
MaxSamples == 2
\* number of points of the mass grid (numpy.linspace(mmin, mmax, 5001) in
\* the source; the model uses a short grid of the same shape)
GridLen == 5

\* the two calls of sample() that are compared
Runs == {1, 2}

(***************************************************************************)
(* Strings                                                                 *)
(***************************************************************************)
UpperCase == "ABCDEFGHIJKLMNOPQRSTUVWXYZ"
LowerCase == "abcdefghijklmnopqrstuvwxyz"
Digits == "0123456789"

Char(s, i) == SubSeq(s, i, i)

Chars(s) == {Char(s, i) : i \in 1..Len(s)}

\* Python: t in s, for strings (substring test; the empty string is in
\* every string)
InStr(t, s) == \E i \in 1..(Len(s) - Len(t) + 1) : SubSeq(s, i, i + Len(t) - 1) = t

\* Python: x in tup, for a tuple of strings (membership)
InTuple(x, tup) == \E i \in 1..Len(tup) : tup[i] = x

LowerChar(c) ==
    IF c \in Chars(UpperCase)
    THEN Char(LowerCase, CHOOSE i \in 1..Len(UpperCase) : Char(UpperCase, i) = c)
    ELSE c

RECURSIVE lower(_)
lower(s) == IF Len(s) = 0 THEN s ELSE LowerChar(Char(s, 1)) \o lower(SubSeq(s, 2, Len(s)))

IsAlnum(c) == c \in Chars(UpperCase) \cup Chars(LowerCase) \cup Chars(Digits)

RECURSIVE remove_special_characters(_)
remove_special_characters(s) ==
    IF Len(s) = 0 THEN s
    ELSE (IF IsAlnum(Char(s, 1)) THEN Char(s, 1) ELSE "")
             \o remove_special_characters(SubSeq(s, 2, Len(s)))

\* Mass.__init__: self.mass_model
Normalize(name) == remove_special_characters(lower(name))

choices == << "PowerLaw+Peak", "MultiPeak", "BrokenPowerLaw", "UniformSecondary",
              "DoubleGaussian", "LogNormal", "PowerLawDipBreak", "PowerLaw" >>

\* Python: str(list of strings)
RECURSIVE ReprItems(_)
ReprItems(l) ==
    IF Len(l) = 0 THEN ""
    ELSE "'" \o l[1] \o "'" \o (IF Len(l) > 1 THEN ", " ELSE "") \o ReprItems(Tail(l))

ReprList(l) == "[" \o ReprItems(l) \o "]"

\* the text of the ValueError of the last else branch
UnrecognizedMessage(mass_model_) ==
    mass_model_ \o " is not implemented in gwpopulation. Please choose from "
                \o ReprList(choices)

(***************************************************************************)
(* Exact rational arithmetic: <<n, d>> with d > 0, in lowest terms.        *)
(***************************************************************************)
Abs(n) == IF n < 0 THEN -n ELSE n

RECURSIVE GCD(_, _)
GCD(a, b) == IF b = 0 THEN a ELSE GCD(b, a % b)

Rat(n, d) ==
    LET s == IF d < 0 THEN -1 ELSE 1
        g == GCD(Abs(n), Abs(d))
    IN  << (s * n) \div g, (s * d) \div g >>

RInt(n) == << n, 1 >>
Zero == RInt(0)
One == RInt(1)

RNeg(a) == << -a[1], a[2] >>
RAdd(a, b) ==
    LET g == GCD(a[2], b[2])
    IN  Rat(a[1] * (b[2] \div g) + b[1] * (a[2] \div g), (a[2] \div g) * b[2])
RSub(a, b) == RAdd(a, RNeg(b))
RMul(a, b) ==
    LET x == Rat(a[1], b[2])
        y == Rat(b[1], a[2])
    IN  << x[1] * y[1], x[2] * y[2] >>
RDiv(a, b) == RMul(a, Rat(b[2], b[1]))
RLt(a, b) == RSub(a, b)[1] < 0
RLe(a, b) == RSub(a, b)[1] <= 0

RECURSIVE RPowNat(_, _)
RPowNat(a, k) == IF k = 0 THEN One ELSE RMul(a, RPowNat(a, k - 1))

\* a ** e for an integer-valued exponent e
RPow(a, e) == IF e[1] >= 0 THEN RPowNat(a, e[1]) ELSE RDiv(One, RPowNat(a, -e[1]))

(***************************************************************************)
(* Inputs: model names, parameter mappings, the random source.             *)
(***************************************************************************)
\* the names a caller may pass as mass_model
ModelNames ==
    { "PowerLaw+Peak", "MultiPeak", "BrokenPowerLaw", "UniformSecondary",
      "DoubleGaussian", "LogNormal", "PowerLawDipBreak", "PowerLaw", "Fixed",
      "LogGaussian", "BrokenPowerLaw-Dip", "not_a_model" }

\* the default value of the parameters argument of Mass.__init__
DefaultParameters ==
    ("alpha" :> Rat(337, 100)) @@ ("beta" :> Rat(76, 100)) @@ ("delta_m" :> Rat(523, 100))
      @@ ("mmin" :> Rat(489, 100)) @@ ("mmax" :> Rat(8881, 100)) @@ ("lam" :> Rat(4, 100))
      @@ ("mpp" :> Rat(3360, 100)) @@ ("sigpp" :> Rat(459, 100))

\* the default plus keys whose names are contained in the name "beta"
ShortKeyParameters ==
    DefaultParameters @@ ("eta" :> One) @@ ("a" :> One) @@ ("beta_2" :> One)

UniformSecondaryParameters ==
    DefaultParameters @@ ("minimum_secondary_mass" :> RInt(1))
                      @@ ("maximum_secondary_mass" :> RInt(3))

DoubleGaussianParameters ==
    ("mmin" :> RInt(1)) @@ ("mmax" :> RInt(5)) @@ ("mu_1" :> RInt(2)) @@ ("sigma_1" :> One)
      @@ ("mu_2" :> RInt(4)) @@ ("sigma_2" :> One) @@ ("breaking_fraction" :> Rat(1, 2))

LogNormalParameters == ("mu" :> RInt(3)) @@ ("sigma" :> One)

FixedParameterSets ==
    { ("primary_mass" :> RInt(P)) @@ ("mass_ratio" :> q) :
         P \in {7, 30}, q \in {Rat(1, 2), One, RInt(2), RInt(3), Rat(3, 2)} }

DipParameters(mmax, alpha_1, alpha_2, gamma_high, eta_low, eta_high, A, n) ==
    ("mmin" :> RInt(1)) @@ ("mmax" :> RInt(mmax)) @@ ("alpha_1" :> RInt(alpha_1))
      @@ ("alpha_2" :> RInt(alpha_2)) @@ ("gamma_low" :> RInt(2))
      @@ ("gamma_high" :> gamma_high) @@ ("eta_low" :> RInt(eta_low))
      @@ ("eta_high" :> RInt(eta_high)) @@ ("A" :> A) @@ ("n" :> RInt(n))

\* parameters of the dip model: mmin < gamma_high, 0 <= A < 1, exponents are
\* integers and alpha_1, alpha_2 are not -1; gamma_high lies on the grid,
\* between two grid points, or above mmax
DipParameterSets ==
    { DipParameters(5, 0, 1, RInt(3), 0, 0, Zero, 0),
      DipParameters(5, 2, 0, Rat(7, 2), 0, 0, Rat(1, 2), 0),
      DipParameters(9, 0, -2, RInt(4), 0, 1, Rat(1, 2), 0),
      DipParameters(5, 1, 1, RInt(3), 1, 0, Rat(1, 2), 0),
      DipParameters(9, 0, 1, RInt(10), 1, 1, Zero, 1),
      DipParameters(5, 2, 1, RInt(3), 1, 1, Rat(1, 2), 1) }

\* a dip mapping without the key alpha_2
DipParametersMissingKey ==
    LET p == CHOOSE d \in DipParameterSets : TRUE
    IN  [k \in (DOMAIN p) \ {"alpha_2"} |-> p[k]]

ParameterSets ==
    { DefaultParameters, ShortKeyParameters, UniformSecondaryParameters,
      DoubleGaussianParameters, LogNormalParameters, DipParametersMissingKey }
      \cup FixedParameterSets \cup DipParameterSets

\* what the gwpopulation evaluator does in this environment: it works, it
\* cannot be imported, or it raises on the keyword arguments it is given
Evaluators == {"ok", "missing", "raises"}

\* the uniform numbers in [0, 1) the external random source hands out, in
\* order; a state of the source is a position in this cycle
UniformStream == << Zero, Rat(1, 2), Rat(19, 20), Rat(1, 4), Rat(9, 10), Rat(3, 4) >>

\* the states the random source may be in when sample() is called
MaxSeed == 2
Seeds == 1..MaxSeed

RngNext(x) == (x % Len(UniformStream)) + 1

(***************************************************************************)
(* The distribution library (bilby.core.prior) as far as sample() uses it. *)
(***************************************************************************)
\* the value of a draw the model does not compute
Unmodelled == << 0, 0 >>

Prior(name, args) == [name |-> name, args |-> args]

\* numpy.linspace(lo, hi, GridLen)
linspace(lo, hi) ==
    [i \in 1..GridLen |-> RAdd(lo, RMul(Rat(i - 1, GridLen - 1), RSub(hi, lo)))]

\* Prior.is_in_prior_range
is_in_prior_range(val, minimum, maximum) == RLe(minimum, val) /\ RLe(val, maximum)

\* bilby PowerLaw.prob(val), alpha # -1
PowerLawProb(val, alpha, minimum, maximum) ==
    IF is_in_prior_range(val, minimum, maximum)
    THEN RDiv(RMul(RPow(val, alpha), RAdd(One, alpha)),
              RSub(RPow(maximum, RAdd(One, alpha)), RPow(minimum, RAdd(One, alpha))))
    ELSE Zero

\* numpy.trapz(yy, xx) over the first k points
RECURSIVE CumTrapz(_, _, _)
CumTrapz(xx, yy, k) ==
    IF k <= 1 THEN Zero
    ELSE RAdd(CumTrapz(xx, yy, k - 1),
              RMul(RSub(xx[k], xx[k - 1]), RMul(Rat(1, 2), RAdd(yy[k], yy[k - 1]))))

\* Interped: the density is divided by its trapezoid integral, YY is the
\* cumulative trapezoid sum of the result with the last element set to one,
\* and a draw is the linear interpolation of the inverse of YY at a uniform
\* number u in [0, 1).  With C the cumulative sum of the density as given,
\* YY[i] = C[i] / C[N], so u is compared with YY[i] as u * C[N] with C[i].
InterpedRescale(xx, yy, u) ==
    LET N == Len(xx)
        C == [i \in 1..N |-> CumTrapz(xx, yy, i)]
        t == RMul(u, C[N])
        k == CHOOSE i \in 1..(N - 1) :
                 /\ RLt(t, C[i + 1])
                 /\ \A j \in 1..(i - 1) : ~RLt(t, C[j + 1])
    IN  RAdd(xx[k], RMul(RDiv(RSub(t, C[k]), RSub(C[k + 1], C[k])),
                         RSub(xx[k + 1], xx[k])))

\* the n uniform numbers handed out from state x on
RECURSIVE Uniforms(_, _)
Uniforms(x, n) == IF n = 0 THEN << >> ELSE << UniformStream[x] >> \o Uniforms(RngNext(x), n - 1)

RECURSIVE RngAdvance(_, _)
RngAdvance(x, n) == IF n = 0 THEN x ELSE RngAdvance(RngNext(x), n - 1)

\* the value of one draw from a prior at the uniform number u
Rescale(prior, u, xx, yy) ==
    CASE prior.name = "Interped" -> InterpedRescale(xx, yy, u)
      [] prior.name = "Uniform" ->
             RAdd(prior.args[1], RMul(u, RSub(prior.args[2], prior.args[1])))
      [] OTHER -> Unmodelled   \* densities and inverses the model does not compute

\* prior.sample(n) from state x of the random source
Sample(prior, n, x, xx, yy) ==
    LET us == Uniforms(x, n)
    IN  [i \in 1..n |-> [prior |-> prior, u |-> us[i], val |-> Rescale(prior, us[i], xx, yy)]]

\* numpy.ones(n) * value
Ones(n, value) ==
    [i \in 1..n |-> [prior |-> Prior("ones", << >>), u |-> Zero, val |-> value]]

(***************************************************************************)
(* notch_filter and low_pass_filter                                        *)
(***************************************************************************)
notch_filter(val, p) ==
    RSub(One, RDiv(p["A"],
                   RMul(RAdd(One, RPow(RDiv(p["gamma_low"], val), p["eta_low"])),
                        RAdd(One, RPow(RDiv(val, p["gamma_high"]), p["eta_high"])))))

low_pass_filter(val, p) ==
    RDiv(One, RAdd(One, RPow(RDiv(val, p["mmax"]), p["n"])))

(***************************************************************************)
(* State                                                                   *)
(***************************************************************************)
VARIABLES
    model_name,         \* the mass_model argument as the caller supplied it
    mass_model,         \* self.mass_model
    number_of_samples,  \* self.number_of_samples
    parameters,         \* self.parameters
    evaluator,          \* what gwpopulation does in this environment
    seed,               \* the state of the random source when sample() is called
    pc,                 \* per run: the position inside sample()
    samples,            \* per run: the local dictionary samples
    rng,                \* per run: the state of the random source
    log,                \* per run: the messages logged
    error,              \* per run: the exception that left sample()
    branch,             \* per run: the model that served the call
    mass_parameters,        \* per run: tier 1, keyword arguments of p_m1
    mass_ratio_parameters,  \* per run: tier 1, keyword arguments of p_q
    mass,               \* per run: dip model, the mass grid
    prob,               \* per run: dip model, the combined density
    writes,             \* per run: dip model, how often each point of prob was assigned
    result              \* per run: the mapping sample() returned

config == << model_name, mass_model, number_of_samples, parameters, evaluator, seed >>
vars == << model_name, mass_model, number_of_samples, parameters, evaluator, seed,
           pc, samples, rng, log, error, branch, mass_parameters,
           mass_ratio_parameters, mass, prob, writes, result >>

EmptyDict == << >>
NoError == [type |-> "", message |-> ""]

\* Mass.__init__ followed by the entry of sample() (samples = {})
Init ==
    /\ model_name \in ModelNames
    /\ mass_model = Normalize(model_name)
    /\ number_of_samples \in 1..MaxSamples
    /\ parameters \in ParameterSets
    /\ evaluator \in Evaluators
    /\ seed \in Seeds
    /\ pc = [r \in Runs |-> "start"]
    /\ samples = [r \in Runs |-> EmptyDict]
    /\ rng = [r \in Runs |-> seed]
    /\ log = [r \in Runs |-> << >>]
    /\ error = [r \in Runs |-> NoError]
    /\ branch = [r \in Runs |-> ""]
    /\ mass_parameters = [r \in Runs |-> EmptyDict]
    /\ mass_ratio_parameters = [r \in Runs |-> EmptyDict]
    /\ mass = [r \in Runs |-> << >>]
    /\ prob = [r \in Runs |-> << >>]
    /\ writes = [r \in Runs |-> << >>]
    /\ result = [r \in Runs |-> EmptyDict]

(***************************************************************************)
(* Tier 1: the try block                                                   *)
(***************************************************************************)
\* the if/elif chain of the try block; "" when no test matches and the
\* name model stays unbound
Tier1Model(name) ==
    IF InStr("powerlawpeak", name) THEN "SinglePeakSmoothedMassDistribution"
    ELSE IF InStr("multipeak", name) THEN "MultiPeakSmoothedMassDistribution"
    ELSE IF InStr("brokenpowerlaw", name) THEN "BrokenPowerLawSmoothedMassDistribution"
    ELSE ""

Restrict(d, keys) == [k \in keys |-> d[k]]

\* {param: ... for param in self.parameters if param not in ('beta')}
\* ('beta') is the string 'beta', so the test is a substring test
Tier1MassParameters(p) == Restrict(p, {k \in DOMAIN p : ~InStr(k, "beta")})

\* {param: ... for param in self.parameters if param in ('beta', 'mmin', 'delta_m')}
Tier1MassRatioParameters(p) ==
    Restrict(p, {k \in DOMAIN p : InTuple(k, << "beta", "mmin", "delta_m" >>)})

\* the model is selected and imported, and the two keyword sets are built
Tier1Build(r) ==
    /\ pc[r] = "start"
    /\ Tier1Model(mass_model) # ""
    /\ evaluator # "missing"
    /\ branch' = [branch EXCEPT ![r] = Tier1Model(mass_model)]
    /\ mass_parameters' = [mass_parameters EXCEPT ![r] = Tier1MassParameters(parameters)]
    /\ mass_ratio_parameters' =
           [mass_ratio_parameters EXCEPT ![r] = Tier1MassRatioParameters(parameters)]
    /\ pc' = [pc EXCEPT ![r] = "tier1_eval"]
    /\ UNCHANGED << config, samples, rng, log, error, mass, prob, writes, result >>

\* the densities are evaluated, the two Interped priors are built and sampled
Tier1Sample(r) ==
    /\ pc[r] = "tier1_eval"
    /\ evaluator = "ok"
    /\ LET n == number_of_samples
           m1 == Sample(Prior("Interped:p_m1", << >>), n, rng[r], << >>, << >>)
           x1 == RngAdvance(rng[r], n)
           q == Sample(Prior("Interped:p_q", << >>), n, x1, << >>, << >>)
       IN  /\ samples' = [samples EXCEPT ![r] =
                             ("mass_1_source" :> m1) @@ ("mass_ratio" :> q)]
           /\ rng' = [rng EXCEPT ![r] = RngAdvance(x1, n)]
    /\ pc' = [pc EXCEPT ![r] = "convert"]
    /\ UNCHANGED << config, log, error, branch, mass_parameters,
                    mass_ratio_parameters, mass, prob, writes, result >>

\* an exception leaves sample(); the local samples is lost
Raise(r, type, message) ==
    /\ error' = [error EXCEPT ![r] = [type |-> type, message |-> message]]
    /\ pc' = [pc EXCEPT ![r] = "raised"]
    /\ UNCHANGED << samples, rng >>

\* variant: only the failures of the lookup and of the import are caught
Tier1ExceptLookupOnly(r) ==
    /\ \/ /\ pc[r] = "start" /\ (Tier1Model(mass_model) = "" \/ evaluator = "missing")
          /\ log' = [log EXCEPT ![r] = @ \o
                 << << "warn", "Parameterised mass model does not exist in gwpopulation" >>,
                    << "info", "Generating samples using " \o mass_model \o " model" >> >>]
          /\ branch' = [branch EXCEPT ![r] = ""]
          /\ pc' = [pc EXCEPT ![r] = "tier2"]
          /\ UNCHANGED << samples, rng, error >>
       \/ /\ pc[r] = "tier1_eval" /\ evaluator = "raises"
          /\ Raise(r, "EvaluatorError", "p_m1")
          /\ UNCHANGED << log, branch >>
    /\ UNCHANGED << config, mass_parameters, mass_ratio_parameters, mass, prob, writes, result >>

\* the try block raised: no test matched (model is unbound), the import
\* failed, or the evaluator raised; the bare except logs and enters tier 2
Tier1Except(r) ==
    /\ \/ pc[r] = "start" /\ (Tier1Model(mass_model) = "" \/ evaluator = "missing")
       \/ pc[r] = "tier1_eval" /\ evaluator = "raises"
    /\ log' = [log EXCEPT ![r] = @ \o
                 << << "warn", "Parameterised mass model does not exist in gwpopulation" >>,
                    << "info", "Generating samples using " \o mass_model \o " model" >> >>]
    /\ branch' = [branch EXCEPT ![r] = ""]
    /\ pc' = [pc EXCEPT ![r] = "tier2"]
    /\ UNCHANGED << config, samples, rng, error, mass_parameters,
                    mass_ratio_parameters, mass, prob, writes, result >>

(***************************************************************************)
(* Tier 2: the except block                                                *)
(***************************************************************************)
\* variant: the plain power-law test is made before the dip test
Tier2BranchPowerLawFirst(name) ==
    IF InStr("uniformsecondary", name) THEN "uniformsecondary"
    ELSE IF InStr("doublegaussian", name) THEN "doublegaussian"
    ELSE IF InStr("lognormal", name) \/ InStr("loggaussian", name) THEN "lognormal"
    ELSE IF InStr("powerlaw", name) THEN "powerlaw"
    ELSE IF InStr("dip", name) THEN "dip"
    ELSE IF InStr("fixed", name) THEN "fixed"
    ELSE "unrecognized"

\* variant: the plain power-law test compares the whole name
Tier2BranchExactPowerLaw(name) ==
    IF InStr("uniformsecondary", name) THEN "uniformsecondary"
    ELSE IF InStr("doublegaussian", name) THEN "doublegaussian"
    ELSE IF InStr("lognormal", name) \/ InStr("loggaussian", name) THEN "lognormal"
    ELSE IF InStr("dip", name) THEN "dip"
    ELSE IF name = "powerlaw" THEN "powerlaw"
    ELSE IF InStr("fixed", name) THEN "fixed"
    ELSE "unrecognized"

\* the if/elif chain of the except block
Tier2Branch(name) ==
    IF InStr("uniformsecondary", name) THEN "uniformsecondary"
    ELSE IF InStr("doublegaussian", name) THEN "doublegaussian"
    ELSE IF InStr("lognormal", name) \/ InStr("loggaussian", name) THEN "lognormal"
    ELSE IF InStr("dip", name) THEN "dip"
    ELSE IF InStr("powerlaw", name) THEN "powerlaw"
    ELSE IF InStr("fixed", name) THEN "fixed"
    ELSE "unrecognized"

HasKeys(keys) == keys \subseteq DOMAIN parameters

\* variant: the second field is never stored
DrawBothOneField(r, prior, xx, yy) ==
    LET n == number_of_samples
        m1 == Sample(prior, n, rng[r], xx, yy)
    IN  /\ samples' = [samples EXCEPT ![r] = ("mass_1_source" :> m1) @@ @]
        /\ rng' = [rng EXCEPT ![r] = RngAdvance(rng[r], n)]
        /\ error' = error
        /\ pc' = [pc EXCEPT ![r] = "convert"]

\* variant: mass_2_source is drawn before mass_1_source
DrawBothSecondFirst(r, prior, xx, yy) ==
    LET n == number_of_samples
        m2 == Sample(prior, n, rng[r], xx, yy)
        x1 == RngAdvance(rng[r], n)
        m1 == Sample(prior, n, x1, xx, yy)
    IN  /\ samples' = [samples EXCEPT ![r] =
                          ("mass_1_source" :> m1) @@ ("mass_2_source" :> m2) @@ @]
        /\ rng' = [rng EXCEPT ![r] = RngAdvance(x1, n)]
        /\ error' = error
        /\ pc' = [pc EXCEPT ![r] = "convert"]

\* both mass fields are drawn from one prior, mass_1_source first
DrawBoth(r, prior, xx, yy) ==
    LET n == number_of_samples
        m1 == Sample(prior, n, rng[r], xx, yy)
        x1 == RngAdvance(rng[r], n)
        m2 == Sample(prior, n, x1, xx, yy)
    IN  /\ samples' = [samples EXCEPT ![r] =
                          ("mass_1_source" :> m1) @@ ("mass_2_source" :> m2) @@ @]
        /\ rng' = [rng EXCEPT ![r] = RngAdvance(x1, n)]
        /\ error' = error
        /\ pc' = [pc EXCEPT ![r] = "convert"]

UniformSecondary(r) ==
    /\ pc[r] = "tier2"
    /\ Tier2Branch(mass_model) = "uniformsecondary"
    /\ branch' = [branch EXCEPT ![r] = "uniformsecondary"]
    /\ IF evaluator = "missing" THEN Raise(r, "ImportError", "gwpopulation")
       ELSE IF evaluator = "raises" THEN Raise(r, "EvaluatorError", "p_m1")
       ELSE IF ~HasKeys({"minimum_secondary_mass"})
            THEN Raise(r, "KeyError", "minimum_secondary_mass")
       ELSE IF ~HasKeys({"maximum_secondary_mass"})
            THEN Raise(r, "KeyError", "maximum_secondary_mass")
       ELSE LET n == number_of_samples
                m1 == Sample(Prior("Interped:p_m1", << >>), n, rng[r], << >>, << >>)
                x1 == RngAdvance(rng[r], n)
                secondar_mass_prior ==
                    Prior("Uniform", << parameters["minimum_secondary_mass"],
                                        parameters["maximum_secondary_mass"] >>)
                m2 == Sample(secondar_mass_prior, n, x1, << >>, << >>)
            IN  /\ samples' = [samples EXCEPT ![r] =
                                  ("mass_1_source" :> m1) @@ ("mass_2_source" :> m2) @@ @]
                /\ rng' = [rng EXCEPT ![r] = RngAdvance(x1, n)]
                /\ error' = error
                /\ pc' = [pc EXCEPT ![r] = "convert"]
    /\ UNCHANGED << config, log, mass_parameters, mass_ratio_parameters,
                    mass, prob, writes, result >>

\* the first key of keys, in the order the code reads them, that the
\* parameter mapping lacks
RECURSIVE FirstMissing(_)
FirstMissing(keys) ==
    IF Len(keys) = 0 THEN ""
    ELSE IF Head(keys) \notin DOMAIN parameters THEN Head(keys)
    ELSE FirstMissing(Tail(keys))

DoubleGaussian(r) ==
    /\ pc[r] = "tier2"
    /\ Tier2Branch(mass_model) = "doublegaussian"
    /\ branch' = [branch EXCEPT ![r] = "doublegaussian"]
    /\ LET missing == FirstMissing(<< "mmin", "mmax", "mu_1", "sigma_1",
                                      "breaking_fraction", "mu_2", "sigma_2" >>)
       IN  IF missing # "" THEN Raise(r, "KeyError", missing)
           ELSE DrawBoth(r, Prior("Interped:TruncatedGaussianMixture",
                                  << parameters["mu_1"], parameters["sigma_1"],
                                     parameters["mu_2"], parameters["sigma_2"],
                                     parameters["breaking_fraction"] >>), << >>, << >>)
    /\ UNCHANGED << config, log, mass_parameters, mass_ratio_parameters,
                    mass, prob, writes, result >>

LogNormal(r) ==
    /\ pc[r] = "tier2"
    /\ Tier2Branch(mass_model) = "lognormal"
    /\ branch' = [branch EXCEPT ![r] = "lognormal"]
    /\ LET missing == FirstMissing(<< "mu", "sigma" >>)
       IN  IF missing # "" THEN Raise(r, "KeyError", missing)
           ELSE DrawBoth(r, Prior("LogNormal", << parameters["mu"], parameters["sigma"] >>),
                         << >>, << >>)
    /\ UNCHANGED << config, log, mass_parameters, mass_ratio_parameters,
                    mass, prob, writes, result >>

PowerLaw(r) ==
    /\ pc[r] = "tier2"
    /\ Tier2Branch(mass_model) = "powerlaw"
    /\ branch' = [branch EXCEPT ![r] = "powerlaw"]
    /\ LET missing == FirstMissing(<< "alpha", "mmin", "mmax" >>)
       IN  IF missing # "" THEN Raise(r, "KeyError", missing)
           ELSE DrawBoth(r, Prior("PowerLaw", << parameters["alpha"], parameters["mmin"],
                                                 parameters["mmax"] >>), << >>, << >>)
    /\ UNCHANGED << config, log, mass_parameters, mass_ratio_parameters,
                    mass, prob, writes, result >>

\* variant: the ratio is used as given
FixedRatioAsGiven(q) == q

\* mass_ratio if mass_ratio < 1 else 1 / mass_ratio
FixedRatio(q) == IF RLt(q, One) THEN q ELSE RDiv(One, q)

Fixed(r) ==
    /\ pc[r] = "tier2"
    /\ Tier2Branch(mass_model) = "fixed"
    /\ branch' = [branch EXCEPT ![r] = "fixed"]
    /\ LET missing == FirstMissing(<< "primary_mass", "mass_ratio" >>)
       IN  IF missing # "" THEN Raise(r, "KeyError", missing)
           ELSE LET m1 == Ones(number_of_samples, parameters["primary_mass"])
                    m2 == [i \in 1..number_of_samples |->
                              [m1[i] EXCEPT !.val =
                                  RMul(@, FixedRatio(parameters["mass_ratio"]))]]
                IN  /\ samples' = [samples EXCEPT ![r] =
                                      ("mass_1_source" :> m1) @@ ("mass_2_source" :> m2) @@ @]
                    /\ error' = error
                    /\ pc' = [pc EXCEPT ![r] = "convert"]
                    /\ rng' = rng
    /\ UNCHANGED << config, log, mass_parameters, mass_ratio_parameters,
                    mass, prob, writes, result >>

\* the last else: raise ValueError
Unrecognized(r) ==
    /\ pc[r] = "tier2"
    /\ Tier2Branch(mass_model) = "unrecognized"
    /\ branch' = [branch EXCEPT ![r] = "unrecognized"]
    /\ Raise(r, "ValueError", UnrecognizedMessage(mass_model))
    /\ UNCHANGED << config, log, mass_parameters, mass_ratio_parameters,
                    mass, prob, writes, result >>

(***************************************************************************)
(* Tier 2, the dip model                                                   *)
(***************************************************************************)
\* the keys notch_filter and low_pass_filter read, in order
FilterKeys == << "A", "gamma_low", "eta_low", "gamma_high", "eta_high", "mmax", "n" >>

\* mass = numpy.linspace(mmin, mmax, ...); prob = numpy.zeros_like(mass)
DipGrid(r) ==
    /\ pc[r] = "tier2"
    /\ Tier2Branch(mass_model) = "dip"
    /\ branch' = [branch EXCEPT ![r] = "dip"]
    /\ LET missing == FirstMissing(<< "mmin", "mmax" >>)
       IN  IF missing # ""
           THEN Raise(r, "KeyError", missing) /\ UNCHANGED << mass, prob, writes >>
           ELSE /\ mass' = [mass EXCEPT ![r] = linspace(parameters["mmin"], parameters["mmax"])]
                /\ prob' = [prob EXCEPT ![r] = [i \in 1..GridLen |-> Zero]]
                /\ writes' = [writes EXCEPT ![r] = [i \in 1..GridLen |-> 0]]
                /\ pc' = [pc EXCEPT ![r] = "dip_lower"]
                /\ UNCHANGED << samples, rng, error >>
    /\ UNCHANGED << config, log, mass_parameters, mass_ratio_parameters, result >>

\* mass <= gamma_high
LowerMask(m, p) == RLe(m, p["gamma_high"])

\* variant: mass >= gamma_high
UpperMaskInclusive(m, p) == RLe(p["gamma_high"], m)

\* mass > gamma_high
UpperMask(m, p) == RLt(p["gamma_high"], m)

\* prior_1 = PowerLaw(alpha_1, minimum=mmin, maximum=gamma_high)
Prior1(p) == Prior("PowerLaw", << p["alpha_1"], p["mmin"], p["gamma_high"] >>)

\* variant: prior_2 bounded by gamma_high and mmax
Prior2AboveGammaHigh(p) == Prior("PowerLaw", << p["alpha_2"], p["gamma_high"], p["mmax"] >>)

\* prior_2 = PowerLaw(alpha_2, minimum=mmin, maximum=gamma_high)
Prior2(p) == Prior("PowerLaw", << p["alpha_2"], p["mmin"], p["gamma_high"] >>)

\* prior.prob(val) * notch_filter(val) * low_pass_filter(val)
DipDensity(val, prior, p) ==
    RMul(RMul(PowerLawProb(val, prior.args[1], prior.args[2], prior.args[3]),
              notch_filter(val, p)),
         low_pass_filter(val, p))

\* prob[mask] = values: the points of the mask are assigned
MaskedAssign(r, mask, prior) ==
    /\ prob' = [prob EXCEPT ![r] =
                   [i \in 1..GridLen |->
                       IF i \in mask
                       THEN DipDensity(mass[r][i], prior, parameters) ELSE @[i]]]
    /\ writes' = [writes EXCEPT ![r] =
                   [i \in 1..GridLen |-> IF i \in mask THEN @[i] + 1 ELSE @[i]]]

\* prior_1, prob_1 and the assignment to the lower split
DipLower(r) ==
    /\ pc[r] = "dip_lower"
    /\ LET missing == FirstMissing(<< "alpha_1", "mmin", "gamma_high" >> \o FilterKeys)
       IN  IF missing # ""
           THEN Raise(r, "KeyError", missing) /\ UNCHANGED << prob, writes >>
           ELSE /\ MaskedAssign(r, {i \in 1..GridLen : LowerMask(mass[r][i], parameters)},
                                Prior1(parameters))
                /\ pc' = [pc EXCEPT ![r] = "dip_upper"]
                /\ UNCHANGED << samples, rng, error >>
    /\ UNCHANGED << config, log, branch, mass_parameters, mass_ratio_parameters,
                    mass, result >>

\* prior_2, prob_2 and the assignment to the upper split
DipUpper(r) ==
    /\ pc[r] = "dip_upper"
    /\ LET missing == FirstMissing(<< "alpha_2", "mmin", "gamma_high" >> \o FilterKeys)
       IN  IF missing # ""
           THEN Raise(r, "KeyError", missing) /\ UNCHANGED << prob, writes >>
           ELSE /\ MaskedAssign(r, {i \in 1..GridLen : UpperMask(mass[r][i], parameters)},
                                Prior2(parameters))
                /\ pc' = [pc EXCEPT ![r] = "dip_sample"]
                /\ UNCHANGED << samples, rng, error >>
    /\ UNCHANGED << config, log, branch, mass_parameters, mass_ratio_parameters,
                    mass, result >>

\* prior = Interped(mass, prob, ...); both fields are drawn from it
DipSample(r) ==
    /\ pc[r] = "dip_sample"
    /\ DrawBoth(r, Prior("Interped", << >>), mass[r], prob[r])
    /\ UNCHANGED << config, log, branch, mass_parameters, mass_ratio_parameters,
                    mass, prob, writes, result >>

(***************************************************************************)
(* The end of sample()                                                     *)
(***************************************************************************)
\* a derived field: one entry per sample
Derived(name, n) == [i \in 1..n |-> [prior |-> Prior(name, << >>), u |-> Zero, val |-> Unmodelled]]

\* conversion.generate_mass_parameters(samples, source=True): the sampled
\* fields are kept and the derived fields are added
generate_mass_parameters(s) ==
    s @@ ("total_mass_source" :> Derived("total_mass", number_of_samples))
      @@ ("chirp_mass_source" :> Derived("chirp_mass", number_of_samples))
      @@ ("mass_ratio" :> Derived("mass_ratio", number_of_samples))

Convert(r) ==
    /\ pc[r] = "convert"
    /\ result' = [result EXCEPT ![r] = generate_mass_parameters(samples[r])]
    /\ pc' = [pc EXCEPT ![r] = "done"]
    /\ UNCHANGED << config, samples, rng, log, error, branch, mass_parameters,
                    mass_ratio_parameters, mass, prob, writes >>

Next ==
    \E r \in Runs :
        \/ Tier1Build(r)
        \/ Tier1Sample(r)
        \/ Tier1Except(r)
        \/ UniformSecondary(r)
        \/ DoubleGaussian(r)
        \/ LogNormal(r)
        \/ DipGrid(r)
        \/ DipLower(r)
        \/ DipUpper(r)
        \/ DipSample(r)
        \/ PowerLaw(r)
        \/ Fixed(r)
        \/ Unrecognized(r)
        \/ Convert(r)

Spec == Init /\ [][Next]_vars

TypeOK ==
    /\ pc \in [Runs -> {"start", "tier1_eval", "tier2", "dip_lower", "dip_upper",
                        "dip_sample", "convert", "done", "raised"}]
    /\ rng \in [Runs -> 1..Len(UniformStream)]

(***************************************************************************)
(* Properties                                                              *)
(***************************************************************************)
Tier1Models == { "SinglePeakSmoothedMassDistribution", "MultiPeakSmoothedMassDistribution",
                 "BrokenPowerLawSmoothedMassDistribution" }

Tier2Positions == {"tier2", "dip_lower", "dip_upper", "dip_sample"}

HasField(d, k) == k \in DOMAIN d /\ Len(d[k]) = number_of_samples

\* C1: a call of sample() that returns yields mass_1_source and a second
\* field, each with exactly number_of_samples entries; the sampled fields
\* are mass_1_source and mass_ratio when a tier-1 model served the call and
\* mass_1_source and mass_2_source when a tier-2 branch did.
C1_SampleFields ==
    \A r \in Runs :
        pc[r] = "done" =>
            /\ HasField(result[r], "mass_1_source")
            /\ IF branch[r] \in Tier1Models
               THEN /\ DOMAIN samples[r] = {"mass_1_source", "mass_ratio"}
                    /\ HasField(result[r], "mass_ratio")
               ELSE /\ DOMAIN samples[r] = {"mass_1_source", "mass_2_source"}
                    /\ HasField(result[r], "mass_2_source")

C1_Witness ==
    /\ pc[1] = "done" /\ pc[2] = "done"
    /\ number_of_samples = 2
    /\ branch[1] = "dip"

\* the model names the specification enumerates
EnumeratedChoices ==
    { "PowerLaw+Peak", "MultiPeak", "BrokenPowerLaw", "UniformSecondary", "DoubleGaussian",
      "LogNormal", "PowerLawDipBreak", "PowerLaw", "Fixed" }

\* C2: the message of the unrecognized-model error contains the name as the
\* caller supplied it and every name of the enumerated set, Fixed included.
C2_MessageNamesInputAndAllChoices ==
    \A r \in Runs :
        error[r].type = "ValueError" =>
            /\ InStr(model_name, error[r].message)
            /\ \A c \in EnumeratedChoices : InStr(c, error[r].message)

\* C3: in the fixed model every mass_1_source is primary_mass, every
\* mass_2_source is primary_mass * mass_ratio when mass_ratio <= 1 and
\* primary_mass / mass_ratio when mass_ratio > 1, and so never exceeds
\* mass_1_source.
C3_FixedMasses ==
    \A r \in Runs :
        (pc[r] = "done" /\ branch[r] = "fixed") =>
            LET P == parameters["primary_mass"]
                q == parameters["mass_ratio"]
            IN  \A i \in 1..number_of_samples :
                    /\ result[r]["mass_1_source"][i].val = P
                    /\ result[r]["mass_2_source"][i].val =
                           (IF RLe(q, One) THEN RMul(P, q) ELSE RDiv(P, q))
                    /\ RLe(result[r]["mass_2_source"][i].val,
                           result[r]["mass_1_source"][i].val)

C3_Witness ==
    /\ pc[1] = "done" /\ branch[1] = "fixed"
    /\ parameters["mass_ratio"] = RInt(2)
    /\ parameters["primary_mass"] = RInt(30)
    /\ result[1]["mass_2_source"][1].val = RInt(15)
Warned(r) ==
    \E i \in 1..Len(log[r]) : log[r][i][1] = "warn"

\* C4: a failure of the try block never leaves sample(): the run goes from
\* tier 1 either to the conversion or, with the warning logged and no error
\* set, to the tier-2 dispatch on the same normalised name; an error is only
\* ever raised after that, and the unrecognized-model error only when no
\* tier-2 branch matches the name.
C4_Tier1FailureFallsThrough ==
    /\ [][\A r \in Runs :
             pc[r] \in {"start", "tier1_eval"} =>
                 /\ pc'[r] \in {"start", "tier1_eval", "convert", "tier2"}
                 /\ error'[r] = NoError
                 /\ pc'[r] = "tier2" => (Warned(r))' /\ mass_model' = mass_model]_vars
    /\ [](\A r \in Runs :
             /\ pc[r] = "raised" => Warned(r) /\ error[r] # NoError
             /\ pc[r] \in Tier2Positions => Warned(r)
             /\ branch[r] \notin Tier1Models \cup {""} => branch[r] = Tier2Branch(mass_model)
             /\ error[r].type = "ValueError" <=>
                    (pc[r] = "raised" /\ Tier2Branch(mass_model) = "unrecognized"))

C4_Witness ==
    /\ evaluator = "raises"
    /\ Tier1Model(mass_model) # ""
    /\ pc[1] = "done"
    /\ pc[2] = "tier2"

FieldUniforms(d, k) == [i \in 1..Len(d[k]) |-> d[k][i].u]

SecondField(r) == IF branch[r] \in Tier1Models THEN "mass_ratio" ELSE "mass_2_source"

C6_ParameterPartition ==
    \A r \in Runs :
        pc[r] = "tier1_eval" =>
            /\ mass_parameters[r] = Restrict(parameters, DOMAIN parameters \ {"beta"})
            /\ mass_ratio_parameters[r] =
                   Restrict(parameters, DOMAIN parameters \cap {"beta", "mmin", "delta_m"})

DipFilled(r) == branch[r] = "dip" /\ pc[r] \in {"dip_sample", "convert", "done"}

\* C7: once both splits of the dip model are assigned, every grid point has
\* been written exactly once: a point at or below gamma_high holds the
\* alpha_1 power law bounded by mmin and gamma_high times notch times
\* low-pass, a point above gamma_high the alpha_2 power law with the same
\* bounds times notch times low-pass.
C7_DipSplit ==
    \A r \in Runs :
        DipFilled(r) =>
            \A i \in 1..GridLen :
                LET m == mass[r][i]
                    p == parameters
                    alpha == IF RLe(m, p["gamma_high"]) THEN p["alpha_1"] ELSE p["alpha_2"]
                IN  /\ writes[r][i] = 1
                    /\ prob[r][i] =
                           RMul(RMul(PowerLawProb(m, alpha, p["mmin"], p["gamma_high"]),
                                     notch_filter(m, p)),
                                low_pass_filter(m, p))

C7_Witness ==
    /\ pc[1] = "dip_sample"
    /\ \E i \in 1..GridLen : mass[1][i] = parameters["gamma_high"]
    /\ \E i \in 1..GridLen : RLt(parameters["gamma_high"], mass[1][i])
    /\ parameters["A"] # Zero
\* the branch each enumerated name stands for
OwnBranch(name) ==
    CASE name = "PowerLaw+Peak" -> "SinglePeakSmoothedMassDistribution"
      [] name = "MultiPeak" -> "MultiPeakSmoothedMassDistribution"
      [] name = "BrokenPowerLaw" -> "BrokenPowerLawSmoothedMassDistribution"
      [] name = "UniformSecondary" -> "uniformsecondary"
      [] name = "DoubleGaussian" -> "doublegaussian"
      [] name = "LogNormal" -> "lognormal"
      [] name = "PowerLawDipBreak" -> "dip"
      [] name = "PowerLaw" -> "powerlaw"
      [] name = "Fixed" -> "fixed"

EarlierThanPowerLaw == {"uniformsecondary", "doublegaussian", "lognormal", "loggaussian", "dip"}

\* C8: with a working evaluator every enumerated name is served by its own
\* branch and no other: the three grid models by tier 1, never entering
\* tier 2; the others by their tier-2 branch, PowerLawDipBreak by the dip
\* model; and the plain power-law branch serves a name only if the name
\* contains none of the substrings tested before it.
C8_OwnBranch ==
    \A r \in Runs :
        /\ (evaluator = "ok" /\ model_name \in EnumeratedChoices) =>
               /\ branch[r] # "" => branch[r] = OwnBranch(model_name)
               /\ pc[r] \in {"convert", "done", "raised"} => branch[r] = OwnBranch(model_name)
               /\ OwnBranch(model_name) \in Tier1Models =>
                      pc[r] \in {"start", "tier1_eval", "convert", "done"}
        /\ branch[r] = "powerlaw" =>
               \A t \in EarlierThanPowerLaw : ~InStr(t, mass_model)

C8_Witness ==
    /\ evaluator = "ok"
    /\ model_name = "PowerLawDipBreak"
    /\ pc[1] = "done" /\ branch[1] = "dip"
    /\ pc[2] = "tier2"

Dispatched(r) == pc[r] \notin {"start", "tier1_eval", "tier2"}

\* C9: when tier 1 fails for a tier-1 name, a name containing powerlawpeak
\* or brokenpowerlaw and none of uniformsecondary, doublegaussian, lognormal,
\* loggaussian, dip is served by the plain power-law branch: no
\* unrecognized-model error, and the returned masses are draws from the one
\* power law with exponent alpha; the name multipeak raises the
\* unrecognized-model error.
C9_Tier1NameInTier2 ==
    \A r \in Runs :
        (Tier1Model(mass_model) # "" /\ Warned(r) /\ Dispatched(r)) =>
            /\ ( /\ InStr("powerlawpeak", mass_model) \/ InStr("brokenpowerlaw", mass_model)
                 /\ \A t \in EarlierThanPowerLaw : ~InStr(t, mass_model) ) =>
                   /\ branch[r] = "powerlaw"
                   /\ error[r].type # "ValueError"
                   /\ pc[r] = "done" =>
                          \A k \in {"mass_1_source", "mass_2_source"} :
                              \A i \in 1..number_of_samples :
                                  result[r][k][i].prior =
                                      Prior("PowerLaw", << parameters["alpha"],
                                            parameters["mmin"], parameters["mmax"] >>)
            /\ mass_model = "multipeak" =>
                   /\ pc[r] = "raised"
                   /\ error[r].type = "ValueError"

C9_Witness ==
    /\ model_name = "PowerLaw+Peak"
    /\ evaluator = "missing"
    /\ pc[1] = "done" /\ branch[1] = "powerlaw"
    /\ DOMAIN samples[1] = {"mass_1_source", "mass_2_source"}

DipDrawn(r) == branch[r] = "dip" /\ pc[r] \in {"convert", "done"}

DipDraws(r) ==
    { samples[r][k][i].val : k \in {"mass_1_source", "mass_2_source"},
                             i \in 1..number_of_samples }

ZeroAboveGammaHigh(r) ==
    \A i \in 1..GridLen : RLt(parameters["gamma_high"], mass[r][i]) => prob[r][i] = Zero

\* C10 as stated: in the dip model the combined density is zero at every
\* grid point above gamma_high and no drawn mass exceeds gamma_high.
C10_NoDrawAboveGammaHigh ==
    \A r \in Runs :
        DipDrawn(r) =>
            /\ ZeroAboveGammaHigh(r)
            /\ \A v \in DipDraws(r) : RLe(v, parameters["gamma_high"])

\* C10 amended: in the dip model the combined density is zero at every grid
\* point above gamma_high, whatever alpha_2 and mmax are, and every drawn
\* mass lies below the first grid point above gamma_high (the sampler
\* interpolates the density linearly between grid points, so a draw may
\* exceed gamma_high by less than one grid step).
C10_DrawsBelowNextGridPoint ==
    \A r \in Runs :
        /\ DipFilled(r) => ZeroAboveGammaHigh(r)
        /\ DipDrawn(r) =>
               \A v \in DipDraws(r) :
                   \A i \in 1..GridLen :
                       RLt(parameters["gamma_high"], mass[r][i]) => RLt(v, mass[r][i])

C10_Witness ==
    /\ DipDrawn(1)
    /\ \E i \in 1..GridLen : RLt(parameters["gamma_high"], mass[1][i])
    /\ \E v \in DipDraws(1) : RLt(parameters["gamma_high"], v)

====
